---- MODULE Spec2Model ----
(***************************************************************************)
(* DatabaseCredentials (prefect_sqlalchemy/credentials.py): validation of  *)
(* the connection configuration, the engine handle, the result-set cache   *)
(* keyed by the hash of the fetch inputs, the exit stack of tracked        *)
(* connections, and teardown for synchronous and asynchronous drivers.     *)
(* The database library objects (engines, connections, cursors) are kept   *)
(* as numbered records so that identity and release order can be stated.   *)
(***************************************************************************)
EXTENDS Integers, Sequences, FiniteSets, TLC

VARIABLES
    phase,            \* "none": not constructed, "live": constructed, "failed": construction raised
    args,             \* the fields the constructor was given
    driver_is_async,  \* self._driver_is_async
    rendered_url,     \* self.rendered_url
    engine,           \* self._engine: 0 is None, otherwise an index into engines
    exit_stack,       \* self._exit_stack: [kind, stack], stack the tracked connections
    unique_results,   \* self._unique_results: insertion-ordered sequence of [key, value]
    made,             \* how many engines and connections were created so far
    engines,          \* the engines in memory, by number: [kind, disposed]
    conns,            \* the connections in memory, by number: [engine, open, begin]
    cursors,          \* the result sets in memory, by the number of their
                      \* connection: [input, conn, rows, closed]
    inScope,          \* inside a with / async with block of the instance
    pickled,          \* the state __getstate__ last returned, None before
    tasks,            \* the fetch coroutines of the event loop: where each one is
                      \* suspended, its input hash, its connection and its cursor
    last              \* the last call: what was called, what it returned or raised, what it did

vars == <<phase, args, driver_is_async, rendered_url, engine, exit_stack,
          unique_results, made, engines, conns, cursors, inScope, pickled, tasks,
          last>>

----------------------------------------------------------------------------
(* Bounds of the model                                                     *)

MaxEngines == 3
MaxConns == 2
MaxRows == 2
NumTasks == 2

----------------------------------------------------------------------------
(* Python values of the configuration fields                               *)

None == [kind |-> "none"]
Str(s) == [kind |-> "str", val |-> s]
Dict(d) == [kind |-> "dict", val |-> d]
EnumMember(cls, v) == [kind |-> "enum", cls |-> cls, val |-> v]
Url(scheme, database) == [kind |-> "url", scheme |-> scheme, database |-> database]

\* Python truth value: None, "" and {} are false
Truthy(v) ==
    CASE v.kind = "none" -> FALSE
      [] v.kind = "str" -> v.val # ""
      [] v.kind = "dict" -> v.val # {}
      [] OTHER -> TRUE

AsyncDriver ==
    {"postgresql+asyncpg", "sqlite+aiosqlite", "mysql+asyncmy", "mysql+aiomysql"}

SyncDriver ==
    {"postgresql+psycopg2", "postgresql+pg8000", "postgresql+psycopg2cffi",
     "postgresql+pypostgresql", "postgresql+pygresql", "mysql+mysqldb",
     "mysql+pymysql", "mysql+mysqlconnector", "mysql+cymysql", "mysql+oursql",
     "mysql+pyodbc", "sqlite+pysqlite", "sqlite+pysqlcipher", "oracle+cx_oracle",
     "mssql+pyodbc", "mssql+mxodbc", "mssql+pymssql"}

fetch_size == 1

UrlKeys == {"drivername", "username", "password", "database", "host", "port", "query"}

\* drivername of block_initialization
Drivername(a) ==
    IF a.driver.kind = "enum" THEN Str(a.driver.val) ELSE a.driver

\* a classification that reads the driver named by the URL when there is one
ClassifyDriverFromUrl(a) ==
    CASE a.url.kind = "url" -> a.url.scheme \in AsyncDriver
      [] a.driver.kind \in {"enum", "str"} -> a.driver.val \in AsyncDriver
      [] OTHER -> FALSE

\* a classification that knows the enumeration members and not their names
ClassifyDriverEnumOnly(a) ==
    a.driver.kind = "enum" /\ a.driver.cls = "AsyncDriver"

\* self._driver_is_async of block_initialization
ClassifyDriver(a) ==
    CASE a.driver.kind = "enum" /\ a.driver.cls = "AsyncDriver" -> TRUE
      [] a.driver.kind = "enum" /\ a.driver.cls = "SyncDriver" -> FALSE
      [] a.driver.kind = "str" -> a.driver.val \in AsyncDriver
      [] OTHER -> FALSE

\* url_params of block_initialization
UrlParams(a) ==
    [drivername |-> Drivername(a),
     username |-> a.username,
     password |-> IF Truthy(a.password) THEN a.password ELSE None,
     database |-> a.database,
     host |-> a.host,
     port |-> a.port,
     query |-> a.query]

\* a validation that asks for the driver alone
MissingRequiredDriverOnly(p) == ~Truthy(p.drivername)

\* not all(url_params[key] for key in ("drivername", "database"))
MissingRequired(p) == ~(Truthy(p.drivername) /\ Truthy(p.database))

\* any(val for val in url_params.values())
UrlConflict(p) == \E k \in UrlKeys : Truthy(p[k])

\* URL.create(**{the url_params that are not None})
UrlCreate(p) ==
    [drivername |-> p.drivername.val,
     username |-> p.username,
     password |-> p.password,
     host |-> p.host,
     port |-> p.port,
     database |-> p.database,
     query |-> IF p.query.kind = "none" THEN {} ELSE p.query.val]

\* make_url(str(self.url))
MakeUrl(u) ==
    [drivername |-> u.scheme,
     username |-> None,
     password |-> None,
     host |-> None,
     port |-> None,
     database |-> Str(u.database),
     query |-> {}]

\* outcome of the validation of block_initialization: "" when it passes
ValidationError(a) ==
    IF ~Truthy(a.url)
    THEN IF MissingRequired(UrlParams(a)) THEN "ValueError" ELSE ""
    ELSE IF UrlConflict(UrlParams(a)) THEN "ValueError" ELSE ""

RenderedUrl(a) ==
    IF ~Truthy(a.url) THEN UrlCreate(UrlParams(a)) ELSE MakeUrl(a.url)

----------------------------------------------------------------------------
(* The call record                                                         *)

NoCall == [op |-> "", input |-> 0, exc |-> "", hint |-> "", rows |-> <<>>,
           eng |-> 0, conn |-> 0, cur |-> 0, hit |-> FALSE, trace |-> <<>>]

Call(op) == [NoCall EXCEPT !.op = op]

----------------------------------------------------------------------------
(* The instance together with the library objects it has created, as one   *)
(* record, so that a method calling another is an operator applied to the  *)
(* result of another.  exc is the exception in flight ("" when none).      *)

Self ==
    [driver_is_async |-> driver_is_async,
     engine |-> engine,
     exit_stack |-> exit_stack,
     unique_results |-> unique_results,
     made |-> made,
     engines |-> engines,
     conns |-> conns,
     cursors |-> cursors,
     exc |-> "", hint |-> "", rows |-> <<>>, eng |-> 0, conn |-> 0, cur |-> 0,
     hit |-> FALSE, trace |-> <<>>]

Raise(s, exc, hint) == [s EXCEPT !.exc = exc, !.hint = hint]

Log(s, what, id) == [s EXCEPT !.trace = Append(@, <<what, id>>)]

\* get_engine: the engine held, or a new one, which is returned and not stored
GetEngine(s) ==
    IF s.engine # 0
    THEN [s EXCEPT !.eng = s.engine]
    ELSE LET e == s.made.engines + 1
             new == [kind |-> IF s.driver_is_async THEN "AsyncEngine" ELSE "Engine",
                     disposed |-> FALSE]
         IN Log([s EXCEPT !.engines = (e :> new) @@ @, !.made.engines = e, !.eng = e],
                "create_engine", e)

\* _start_engine: self._engine = self.get_engine()
StartEngine(s) ==
    LET g == GetEngine(s) IN [g EXCEPT !.engine = g.eng]

\* _start_exit_stack
StartExitStack(s) ==
    [s EXCEPT !.exit_stack =
        [kind |-> IF s.driver_is_async THEN "AsyncExitStack" ELSE "ExitStack",
         stack |-> <<>>]]

\* get_client, entered: a new connection of get_engine()'s engine
GetClient(s, begin) ==
    LET g == GetEngine(s)
        k == g.made.conns + 1
        new == [engine |-> g.eng, open |-> TRUE, begin |-> begin]
    IN Log([g EXCEPT !.conns = (k :> new) @@ @, !.made.conns = k, !.conn = k],
           "connect", k)

\* leaving the connection's context manager
Release(s, k) ==
    Log([s EXCEPT !.conns[k].open = FALSE], "release", k)

----------------------------------------------------------------------------
(* Fetch inputs, their hash and the result-set cache                       *)

NumInputs == 2

\* dict(statement=text(operation), parameters=parameters, execution_options=...):
\* the i-th input tried; they differ in the operation text, then in the
\* parameters, then in the execution options
Input(i) ==
    [operation |-> IF i % 3 = 2 THEN "SELECT 2" ELSE "SELECT 1",
     parameters |-> IF i % 3 = 0 THEN i ELSE 0,
     execution_options |-> IF i % 3 = 1 THEN i - 1 ELSE 0]

Inputs == {Input(i) : i \in 1..NumInputs}

\* hash_objects(**inputs): one value per distinct (statement, parameters, options)
hash_objects(inp) ==
    CHOOSE i \in 1..NumInputs : Input(i) = inp

\* the rows the database returns for an execution of inp
ResultRows(inp) ==
    [i \in 1..(IF inp.operation = "SELECT 1" THEN MaxRows ELSE MaxRows - 1) |-> i]

Keys(cache) == {cache[i].key : i \in DOMAIN cache}

\* a lookup that never finds the input
CacheHitNever(h, cache) == FALSE

\* input_hash in self._unique_results.keys()
CacheHit(h, cache) == h \in Keys(cache)

\* self._unique_results[input_hash]
Lookup(cache, h) == (CHOOSE i \in DOMAIN cache : cache[i].key = h)

\* a cache that keeps only the result set stored last
StoreSingle(cache, h, c) == <<[key |-> h, value |-> c]>>

\* self._unique_results[input_hash] = result_set
Store(cache, h, c) ==
    IF h \in Keys(cache)
    THEN [cache EXCEPT ![Lookup(cache, h)].value = c]
    ELSE Append(cache, [key |-> h, value |-> c])

\* a pop that leaves the entry in the cache
PopKeeps(cache, h) == cache

\* self._unique_results.pop(input_hash)
Pop(cache, h) ==
    SelectSeq(cache, LAMBDA e : e.key # h)

\* _async_sync_execute: connection.execute, awaited and committed when the driver
\* is asynchronous; ok is whether the database accepts the operation
AsyncSyncExecute(s, k, inp, ok) ==
    LET ran == Log(s, "execute", hash_objects(inp))
        new == [input |-> hash_objects(inp), conn |-> k, rows |-> ResultRows(inp),
                closed |-> FALSE]
        got == [ran EXCEPT !.cursors = (k :> new) @@ @, !.cur = k]
    IN IF ~ok THEN Raise(ran, "DBAPIError", "")
       ELSE IF s.driver_is_async THEN Log(got, "commit", k) ELSE got

\* a _get_result_set that enters the connection in the exit stack only once
\* the execution has returned
GetResultSetTrackLate(s, inp, ok) ==
    LET h == hash_objects(inp) IN
    IF ~CacheHit(h, s.unique_results)
    THEN LET opened == GetClient(s, TRUE)
             k == opened.conn
             ran == AsyncSyncExecute(opened, k, inp, ok)
         IN IF ran.exc # "" THEN ran
            ELSE Log([ran EXCEPT !.exit_stack.stack = Append(@, k),
                                 !.unique_results = Store(@, h, ran.cur)],
                     "track", k)
    ELSE [s EXCEPT !.cur = s.unique_results[Lookup(s.unique_results, h)].value,
                   !.hit = TRUE]

\* a _get_result_set that takes the connection off the exit stack and releases
\* it when the execution raises
GetResultSetReleasesOnError(s, inp, ok) ==
    LET h == hash_objects(inp) IN
    IF ~CacheHit(h, s.unique_results)
    THEN LET opened == GetClient(s, TRUE)
             k == opened.conn
             tracked == Log([opened EXCEPT !.exit_stack.stack = Append(@, k)],
                            "track", k)
             ran == AsyncSyncExecute(tracked, k, inp, ok)
         IN IF ran.exc # ""
            THEN Release([ran EXCEPT !.exit_stack.stack = s.exit_stack.stack], k)
            ELSE [ran EXCEPT !.unique_results = Store(@, h, ran.cur)]
    ELSE [s EXCEPT !.cur = s.unique_results[Lookup(s.unique_results, h)].value,
                   !.hit = TRUE]

\* _get_result_set
GetResultSet(s, inp, ok) ==
    LET h == hash_objects(inp) IN
    IF ~CacheHit(h, s.unique_results)
    THEN LET opened == GetClient(s, TRUE)
             k == opened.conn
             tracked == Log([opened EXCEPT !.exit_stack.stack = Append(@, k)],
                            "track", k)
             ran == AsyncSyncExecute(tracked, k, inp, ok)
         IN IF ran.exc # "" THEN ran
            ELSE [ran EXCEPT !.unique_results = Store(@, h, ran.cur)]
    ELSE [s EXCEPT !.cur = s.unique_results[Lookup(s.unique_results, h)].value,
                   !.hit = TRUE]

Min(a, b) == IF a < b THEN a ELSE b

\* a read that returns the next n rows and leaves the cursor where it was
FetchRowsNoAdvance(s, n) ==
    LET c == s.cursors[s.cur]
    IN [s EXCEPT !.rows = SubSeq(c.rows, 1, Min(n, Len(c.rows)))]

\* result_set.fetchone / fetchmany(size=n) / fetchall: the next n rows
FetchRows(s, n) ==
    LET c == s.cursors[s.cur]
        m == Min(n, Len(c.rows))
    IN [s EXCEPT !.rows = SubSeq(c.rows, 1, m),
                 !.cursors[s.cur].rows = SubSeq(c.rows, m + 1, Len(c.rows))]

fetch_one(s, inp, ok) ==
    LET r == GetResultSet(s, inp, ok) IN
    IF r.exc # "" THEN r ELSE FetchRows(r, 1)

fetch_many(s, inp, size, ok) ==
    LET r == GetResultSet(s, inp, ok) IN
    IF r.exc # "" THEN r
    ELSE FetchRows(r, IF size # 0 THEN size ELSE fetch_size)

fetch_all(s, inp, ok) ==
    LET r == GetResultSet(s, inp, ok) IN
    IF r.exc # "" THEN r
    ELSE FetchRows(r, Len(r.cursors[r.cur].rows))

\* an execute that goes through the result-set cache as the fetch methods do
execute_memoized(s, inp, ok) == GetResultSet(s, inp, ok)

\* an execute whose connection is released only when the execution returns
execute_leaks_on_error(s, inp, ok) ==
    LET opened == GetClient(s, FALSE)
        ran == AsyncSyncExecute(opened, opened.conn, inp, ok)
    IN IF ran.exc # "" THEN ran ELSE Release(ran, opened.conn)

\* execute and execute_many: _manage_connection(begin=False) around
\* _async_sync_execute; the connection is released on the way out
execute(s, inp, ok) ==
    LET opened == GetClient(s, FALSE)
        ran == AsyncSyncExecute(opened, opened.conn, inp, ok)
    IN Release(ran, opened.conn)

execute_many(s, inp, ok) == execute(s, inp, ok)

----------------------------------------------------------------------------
(* Reset and teardown.  failing says what the database refuses:           *)
(* failing.cursors are the cache keys whose cursor raises when closed,     *)
(* failing.release the connections whose release raises.                   *)

\* a loop turn without the try/except: the failure of close propagates
PopAndCloseRaising(s, h, failing) ==
    LET c == s.unique_results[Lookup(s.unique_results, h)].value
        popped == [s EXCEPT !.unique_results = Pop(@, h)]
    IN IF h \in failing.cursors
       THEN Raise(Log(popped, "close_failed", c), "Exception", "")
       ELSE Log([popped EXCEPT !.cursors[c].closed = TRUE, !.cursors[c].rows = <<>>],
                "cursor_close", c)

\* one turn of the loop of _reset_cursor_results: pop, close, warn on failure
PopAndClose(s, h, failing) ==
    LET c == s.unique_results[Lookup(s.unique_results, h)].value
        popped == [s EXCEPT !.unique_results = Pop(@, h)]
    IN IF h \in failing.cursors
       THEN Log(Log(popped, "close_failed", c), "warning", h)
       ELSE Log([popped EXCEPT !.cursors[c].closed = TRUE, !.cursors[c].rows = <<>>],
                "cursor_close", c)

RECURSIVE ResetLoop(_, _, _)
ResetLoop(s, hashes, failing) ==
    IF hashes = <<>> \/ s.exc # "" THEN s
    ELSE ResetLoop(PopAndClose(s, Head(hashes), failing), Tail(hashes), failing)

\* _reset_cursor_results
ResetCursorResults(s, failing) ==
    ResetLoop(s, [i \in DOMAIN s.unique_results |-> s.unique_results[i].key], failing)

\* the exit of a connection that raises: the connection is off the stack and
\* was not released
ReleaseFails(s, k) ==
    Raise(Log(s, "release_failed", k), "Exception", "release")

\* self._exit_stack.close() / aclose(): the tracked connections leave in reverse
\* order of entry and the stack ends empty; every exit callback runs, also
\* after one has raised, and what was raised propagates at the end
RECURSIVE ExitStackClose(_, _)
ExitStackClose(s, failing) ==
    LET st == s.exit_stack.stack
        k == st[Len(st)]
        popped == [s EXCEPT !.exit_stack.stack = SubSeq(st, 1, Len(st) - 1)]
    IN IF st = <<>> THEN s
       ELSE ExitStackClose(IF k \in failing.release THEN ReleaseFails(popped, k)
                                                    ELSE Release(popped, k),
                           failing)

\* a reset that releases the connections and leaves the cache as it is
ResetBodySkipsCursors(s, failing) == ExitStackClose(s, failing)

\* the body shared by reset_connections and reset_async_connections
ResetBody(s, failing) ==
    LET r == ResetCursorResults(s, failing) IN
    IF r.exc # "" THEN r ELSE ExitStackClose(r, failing)

\* a reset_connections without the guard on the concurrency mode
reset_connections_unguarded(s, failing) == ResetBody(s, failing)

reset_connections(s, failing) ==
    IF s.driver_is_async
    THEN Raise(s, "ValueError", "reset_async_connections")
    ELSE ResetBody(s, failing)

reset_async_connections(s, failing) ==
    IF ~s.driver_is_async
    THEN Raise(s, "ValueError", "reset_connections")
    ELSE ResetBody(s, failing)

\* a finally clause that disposes the engine and keeps the handle
DisposeEngineKeepsHandle(s) ==
    IF s.engine # 0
    THEN Log([s EXCEPT !.engines[s.engine].disposed = TRUE], "dispose", s.engine)
    ELSE s

\* the finally clause of close and aclose
DisposeEngine(s) ==
    IF s.engine # 0
    THEN [Log([s EXCEPT !.engines[s.engine].disposed = TRUE], "dispose", s.engine)
            EXCEPT !.engine = 0]
    ELSE s

\* a close with no finally clause: the engine is disposed when the reset returns
close_without_finally(s, failing) ==
    IF s.driver_is_async
    THEN Raise(s, "ValueError", "aclose")
    ELSE IF reset_connections(s, failing).exc # ""
         THEN reset_connections(s, failing)
         ELSE DisposeEngine(reset_connections(s, failing))

\* a close without the guard on the concurrency mode
close_unguarded(s, failing) == DisposeEngine(reset_connections(s, failing))

\* a close that disposes the engine before it resets the connections
close_dispose_first(s, failing) ==
    IF s.driver_is_async
    THEN Raise(s, "ValueError", "aclose")
    ELSE reset_connections(DisposeEngine(s), failing)

close(s, failing) ==
    IF s.driver_is_async
    THEN Raise(s, "ValueError", "aclose")
    ELSE DisposeEngine(reset_connections(s, failing))

aclose(s, failing) ==
    IF ~s.driver_is_async
    THEN Raise(s, "ValueError", "close")
    ELSE DisposeEngine(reset_async_connections(s, failing))

\* __enter__
enter(s) ==
    IF s.driver_is_async
    THEN Raise(s, "ValueError", "async with")
    ELSE StartEngine(s)

\* __aenter__
aenter(s) ==
    IF ~s.driver_is_async
    THEN Raise(s, "ValueError", "with")
    ELSE StartEngine(s)

\* an exit from the block that leaves the instance as it is
exit_without_close(s, failing) == s

\* __exit__: self.close(), whatever ended the block
exit(s, failing) == close(s, failing)

\* __aexit__: await self.aclose()
aexit(s, failing) == aclose(s, failing)

----------------------------------------------------------------------------
(* Construction                                                            *)

\* an initialization that leaves the engine to the first use
InitializeLazy(a) ==
    StartExitStack(
        [driver_is_async |-> ClassifyDriver(a), engine |-> 0,
         exit_stack |-> [kind |-> "none", stack |-> <<>>],
         unique_results |-> <<>>, made |-> [engines |-> 0, conns |-> 0],
         engines |-> <<>>, conns |-> <<>>, cursors |-> <<>>, exc |-> "",
         hint |-> "", rows |-> <<>>, eng |-> 0, conn |-> 0, cur |-> 0,
         hit |-> FALSE, trace |-> <<>>])

\* block_initialization once validation has passed
Initialize(a) ==
    LET blank == [driver_is_async |-> ClassifyDriver(a), engine |-> 0,
                  exit_stack |-> [kind |-> "none", stack |-> <<>>],
                  unique_results |-> <<>>, made |-> [engines |-> 0, conns |-> 0],
                  engines |-> <<>>, conns |-> <<>>, cursors |-> <<>>, exc |-> "", hint |-> "", rows |-> <<>>,
                  eng |-> 0, conn |-> 0, cur |-> 0, hit |-> FALSE, trace |-> <<>>]
    IN StartExitStack(StartEngine(blank))

----------------------------------------------------------------------------
(* Serialization                                                           *)

\* __getstate__: a copy of __dict__ (the fields, rendered_url and
\* _driver_is_async) with _engine, _unique_results and _exit_stack set to None
getstate(s, a, url) ==
    [args |-> a, rendered_url |-> url, _driver_is_async |-> s.driver_is_async,
     _engine |-> 0, _unique_results |-> None, _exit_stack |-> None]

\* __setstate__ in the process that loads the state, where no engine,
\* connection or result set exists yet: __dict__.update(data), an empty cache
\* and a new exit stack
setstate(data) ==
    LET loaded == [driver_is_async |-> data._driver_is_async,
                   engine |-> data._engine,
                   exit_stack |-> [kind |-> "none", stack |-> <<>>],
                   unique_results |-> <<>>,
                   made |-> [engines |-> 0, conns |-> 0],
                   engines |-> <<>>, conns |-> <<>>, cursors |-> <<>>,
                   exc |-> "", hint |-> "", rows |-> <<>>,
                   eng |-> 0, conn |-> 0, cur |-> 0, hit |-> FALSE, trace |-> <<>>]
    IN StartExitStack(loaded)

----------------------------------------------------------------------------
(* Configurations                                                          *)

AllArgs ==
    [driver : {None, Str(""), Str("postgresql+asyncpg"), Str("snowflake"),
               EnumMember("AsyncDriver", "sqlite+aiosqlite"),
               EnumMember("SyncDriver", "postgresql+psycopg2")},
     username : {None, Str(""), Str("user")},
     password : {None, Str(""), Str("secret")},
     database : {None, Str(""), Str("db")},
     host : {None, Str("localhost")},
     port : {None, Str("5432")},
     query : {None, Dict({}), Dict({<<"sslmode", "require">>})},
     url : {None, Url("snowflake", "db")}]

NoArgs ==
    [driver |-> None, username |-> None, password |-> None, database |-> None,
     host |-> None, port |-> None, query |-> None, url |-> None]

CoreArgs ==
    {[NoArgs EXCEPT !.driver = EnumMember("SyncDriver", "postgresql+psycopg2"),
                    !.database = Str("db")],
     [NoArgs EXCEPT !.driver = EnumMember("AsyncDriver", "sqlite+aiosqlite"),
                    !.database = Str("db")],
     NoArgs}

----------------------------------------------------------------------------
(* The state machine                                                       *)

\* a coroutine that is not inside a fetch
IdleTask == [pc |-> "idle", input |-> 0, conn |-> 0, cur |-> 0]

InitVars ==
    /\ phase = "none"
    /\ driver_is_async = FALSE
    /\ rendered_url = None
    /\ engine = 0
    /\ exit_stack = [kind |-> "none", stack |-> <<>>]
    /\ unique_results = <<>>
    /\ made = [engines |-> 0, conns |-> 0]
    /\ engines = <<>>
    /\ conns = <<>>
    /\ cursors = <<>>
    /\ inScope = FALSE
    /\ pickled = None
    /\ tasks = [t \in 1..NumTasks |-> IdleTask]
    /\ last = NoCall

Init == InitVars /\ args \in CoreArgs

ConfigInit == InitVars /\ args \in AllArgs

\* configurations whose driver is an enumeration member, the name of an
\* asynchronous driver, another name, or part of a URL
RoundTripArgs ==
    {[NoArgs EXCEPT !.driver = EnumMember("SyncDriver", "postgresql+psycopg2"),
                    !.database = Str("db")],
     [NoArgs EXCEPT !.driver = EnumMember("AsyncDriver", "sqlite+aiosqlite"),
                    !.database = Str("db")],
     [NoArgs EXCEPT !.driver = Str("postgresql+asyncpg"), !.database = Str("db")],
     [NoArgs EXCEPT !.driver = Str("snowflake"), !.database = Str("db")],
     [NoArgs EXCEPT !.url = Url("snowflake", "db")]}

RoundTripInit == InitVars /\ args \in RoundTripArgs

\* What stays in memory when a call returns: the result sets that are cached or
\* still usable (not closed, on an open connection), the open connections, and
\* the engines that are not disposed or are still referred to.
KeptCursors(s) ==
    {c \in DOMAIN s.cursors :
        \/ \E i \in DOMAIN s.unique_results : s.unique_results[i].value = c
        \/ /\ ~s.cursors[c].closed
           /\ s.cursors[c].conn \in DOMAIN s.conns
           /\ s.conns[s.cursors[c].conn].open}

KeptConns(s) == {k \in DOMAIN s.conns : s.conns[k].open}

KeptEngines(s) ==
    {e \in DOMAIN s.engines :
        \/ ~s.engines[e].disposed
        \/ s.engine = e
        \/ \E k \in KeptConns(s) : s.conns[k].engine = e}

Restrict(f, S) == [x \in S |-> f[x]]

\* the instance and the record of the call after a method has run
Commit(op, input, s) ==
    /\ s.made.engines <= MaxEngines
    /\ s.made.conns <= MaxConns
    /\ driver_is_async' = s.driver_is_async
    /\ engine' = s.engine
    /\ exit_stack' = s.exit_stack
    /\ unique_results' = s.unique_results
    /\ made' = s.made
    /\ engines' = Restrict(s.engines, KeptEngines(s))
    /\ conns' = Restrict(s.conns, KeptConns(s))
    /\ cursors' = Restrict(s.cursors, KeptCursors(s))
    /\ last' = [op |-> op, input |-> input, exc |-> s.exc, hint |-> s.hint,
                rows |-> s.rows, eng |-> s.eng, conn |-> s.conn, cur |-> s.cur,
                hit |-> s.hit, trace |-> s.trace]

Construct ==
    /\ phase = "none"
    /\ IF ValidationError(args) # ""
       THEN /\ phase' = "failed"
            /\ last' = [Call("__init__") EXCEPT !.exc = ValidationError(args)]
            /\ UNCHANGED <<args, driver_is_async, rendered_url, engine, exit_stack,
                           unique_results, made, engines, conns, cursors, inScope,
                           pickled, tasks>>
       ELSE /\ phase' = "live"
            /\ rendered_url' = RenderedUrl(args)
            /\ Commit("__init__", 0, Initialize(args))
            /\ UNCHANGED <<args, inScope, pickled, tasks>>

Frame == UNCHANGED <<phase, args, rendered_url, pickled, tasks>>

\* the database's answers to an execution of inp: it runs (TRUE) or raises; a
\* fetch that finds its input cached executes nothing
Answers(inp) ==
    IF CacheHit(hash_objects(inp), unique_results) THEN {TRUE} ELSE BOOLEAN

\* the size argument of fetch_many: 0 stands for None
Sizes == {0, 2}

\* what a reset or teardown may meet: cursors that fail to close
CursorFaults == [cursors : SUBSET Keys(unique_results), release : {{}}]

\* cursors that fail to close and tracked connections that fail to be released
ReleaseFaults ==
    [cursors : SUBSET Keys(unique_results),
     release : SUBSET {exit_stack.stack[i] : i \in DOMAIN exit_stack.stack}]

GetEngineCall ==
    /\ phase = "live"
    /\ Commit("get_engine", 0, GetEngine(Self))
    /\ Frame /\ UNCHANGED inScope

FetchOne ==
    /\ phase = "live"
    /\ \E inp \in Inputs : \E ok \in Answers(inp) :
         Commit("fetch_one", hash_objects(inp), fetch_one(Self, inp, ok))
    /\ Frame /\ UNCHANGED inScope

FetchMany ==
    /\ phase = "live"
    /\ \E inp \in Inputs, size \in Sizes : \E ok \in Answers(inp) :
         Commit("fetch_many", hash_objects(inp), fetch_many(Self, inp, size, ok))
    /\ Frame /\ UNCHANGED inScope

FetchAll ==
    /\ phase = "live"
    /\ \E inp \in Inputs : \E ok \in Answers(inp) :
         Commit("fetch_all", hash_objects(inp), fetch_all(Self, inp, ok))
    /\ Frame /\ UNCHANGED inScope

Execute ==
    /\ phase = "live"
    /\ \E inp \in Inputs, ok \in BOOLEAN :
         Commit("execute", hash_objects(inp), execute(Self, inp, ok))
    /\ Frame /\ UNCHANGED inScope

ExecuteMany ==
    /\ phase = "live"
    /\ \E inp \in Inputs, ok \in BOOLEAN :
         Commit("execute_many", hash_objects(inp), execute_many(Self, inp, ok))
    /\ Frame /\ UNCHANGED inScope

ResetConnections ==
    /\ phase = "live"
    /\ \E failing \in CursorFaults :
         Commit("reset_connections", 0, reset_connections(Self, failing))
    /\ Frame /\ UNCHANGED inScope

ResetAsyncConnections ==
    /\ phase = "live"
    /\ \E failing \in CursorFaults :
         Commit("reset_async_connections", 0, reset_async_connections(Self, failing))
    /\ Frame /\ UNCHANGED inScope

Close ==
    /\ phase = "live"
    /\ \E failing \in CursorFaults :
         Commit("close", 0, close(Self, failing))
    /\ Frame /\ UNCHANGED inScope

AClose ==
    /\ phase = "live"
    /\ \E failing \in CursorFaults :
         Commit("aclose", 0, aclose(Self, failing))
    /\ Frame /\ UNCHANGED inScope

\* with: __enter__; the block is entered only when it returns
Enter ==
    /\ phase = "live" /\ ~inScope
    /\ Commit("__enter__", 0, enter(Self))
    /\ inScope' = (enter(Self).exc = "")
    /\ Frame

\* async with: __aenter__
AEnter ==
    /\ phase = "live" /\ ~inScope
    /\ Commit("__aenter__", 0, aenter(Self))
    /\ inScope' = (aenter(Self).exc = "")
    /\ Frame

\* the end of the with block, reached normally or by an exception: __exit__
Exit ==
    /\ phase = "live" /\ inScope /\ ~driver_is_async
    /\ \E failing \in CursorFaults :
         Commit("__exit__", 0, exit(Self, failing))
    /\ inScope' = FALSE
    /\ Frame

\* the end of the async with block: __aexit__
AExit ==
    /\ phase = "live" /\ inScope /\ driver_is_async
    /\ \E failing \in CursorFaults :
         Commit("__aexit__", 0, aexit(Self, failing))
    /\ inScope' = FALSE
    /\ Frame

\* pickle.dumps(instance): the instance stays as it is
GetStateCall ==
    /\ phase = "live"
    /\ pickled' = getstate(Self, args, rendered_url)
    /\ Commit("__getstate__", 0, Self)
    /\ UNCHANGED <<phase, args, rendered_url, inScope, tasks>>

\* pickle.loads(state): from here on the instance is the reconstructed one
SetStateCall ==
    /\ phase = "live" /\ pickled # None
    /\ args' = pickled.args
    /\ rendered_url' = pickled.rendered_url
    /\ Commit("__setstate__", 0, setstate(pickled))
    /\ inScope' = FALSE
    /\ UNCHANGED <<phase, pickled, tasks>>

Next ==
    \/ Construct
    \/ GetEngineCall
    \/ FetchOne
    \/ FetchMany
    \/ FetchAll
    \/ Execute
    \/ ExecuteMany
    \/ ResetConnections
    \/ ResetAsyncConnections
    \/ Close
    \/ AClose
    \/ Enter
    \/ AEnter
    \/ Exit
    \/ AExit

Spec == Init /\ [][Next]_vars

ConfigSpec == ConfigInit /\ [][Construct]_vars

RoundTripNext ==
    \/ Construct
    \/ FetchOne
    \/ Execute
    \/ ResetConnections
    \/ ResetAsyncConnections
    \/ Close
    \/ AClose
    \/ GetStateCall
    \/ SetStateCall

RoundTripSpec == RoundTripInit /\ [][RoundTripNext]_vars

----------------------------------------------------------------------------
(* Overlapping fetches of an asynchronous instance.  A fetch_one that      *)
(* misses the cache is suspended three times between its lookup and its    *)
(* store: while the connection is acquired, while the operation executes   *)
(* and while the connection commits; other coroutines run meanwhile.       *)

\* enter_async_context(self.get_client()): the awaited connection, tracked
Acquire(s) ==
    LET opened == GetClient(s, TRUE)
        k == opened.conn
    IN Log([opened EXCEPT !.exit_stack.stack = Append(@, k)], "track", k)

\* a store that keeps the result set already cached for the hash
StoreResultIfAbsent(s, h, c) ==
    IF CacheHit(h, s.unique_results)
    THEN FetchRows([s EXCEPT !.cur = c], 1)
    ELSE FetchRows([s EXCEPT !.unique_results = Store(@, h, c), !.cur = c], 1)

\* self._unique_results[input_hash] = result_set, then result_set.fetchone()
StoreResult(s, h, c) ==
    FetchRows([s EXCEPT !.unique_results = Store(@, h, c), !.cur = c], 1)

\* the instance after a step that does not end a call
Apply(s) ==
    /\ s.made.engines <= MaxEngines
    /\ s.made.conns <= MaxConns
    /\ driver_is_async' = s.driver_is_async
    /\ engine' = s.engine
    /\ exit_stack' = s.exit_stack
    /\ unique_results' = s.unique_results
    /\ made' = s.made
    /\ engines' = Restrict(s.engines, KeptEngines(s))
    /\ conns' = Restrict(s.conns, KeptConns(s))
    /\ cursors' = Restrict(s.cursors, KeptCursors(s))

TaskFrame == UNCHANGED <<phase, args, rendered_url, pickled, inScope>>

AllIdle == \A t \in DOMAIN tasks : tasks[t].pc = "idle"

\* a coroutine calls fetch_one: the lookup; a hit returns the next row of the
\* cached result set at once, a miss starts to acquire a connection
TaskStart ==
    /\ phase = "live" /\ driver_is_async
    /\ \E t \in DOMAIN tasks, inp \in Inputs :
         /\ tasks[t].pc = "idle"
         /\ IF CacheHit(hash_objects(inp), unique_results)
            THEN /\ Commit("fetch_one", hash_objects(inp), fetch_one(Self, inp, TRUE))
                 /\ UNCHANGED tasks
            ELSE /\ tasks' = [tasks EXCEPT ![t] = [pc |-> "acquiring",
                                                   input |-> hash_objects(inp),
                                                   conn |-> 0, cur |-> 0]]
                 /\ UNCHANGED <<driver_is_async, engine, exit_stack, unique_results,
                                made, engines, conns, cursors, last>>
    /\ TaskFrame

\* the connection is there: it enters the exit stack and the execution starts
TaskAcquired ==
    /\ \E t \in DOMAIN tasks :
         /\ tasks[t].pc = "acquiring"
         /\ Apply(Acquire(Self))
         /\ tasks' = [tasks EXCEPT ![t].pc = "executing",
                                   ![t].conn = Acquire(Self).conn]
    /\ UNCHANGED last
    /\ TaskFrame

\* the database has answered: the fetch raises, or the commit starts
TaskExecuted ==
    /\ \E t \in DOMAIN tasks, ok \in BOOLEAN :
         LET ran == AsyncSyncExecute([Self EXCEPT !.conn = tasks[t].conn],
                                     tasks[t].conn, Input(tasks[t].input), ok)
         IN /\ tasks[t].pc = "executing"
            /\ IF ran.exc # ""
               THEN /\ Commit("fetch_one", tasks[t].input, ran)
                    /\ tasks' = [tasks EXCEPT ![t] = IdleTask]
               ELSE /\ Apply(ran)
                    /\ tasks' = [tasks EXCEPT ![t].pc = "committing",
                                              ![t].cur = ran.cur]
                    /\ UNCHANGED last
    /\ TaskFrame

\* the commit is done: the result set is stored and its first row returned
TaskCommitted ==
    /\ \E t \in DOMAIN tasks :
         /\ tasks[t].pc = "committing"
         /\ Commit("fetch_one", tasks[t].input,
                   StoreResult([Self EXCEPT !.conn = tasks[t].conn],
                               tasks[t].input, tasks[t].cur))
         /\ tasks' = [tasks EXCEPT ![t] = IdleTask]
    /\ TaskFrame

\* a reset once every fetch has returned
LaterReset ==
    /\ AllIdle
    /\ ResetAsyncConnections

OverlapInit ==
    /\ InitVars
    /\ args = [NoArgs EXCEPT !.driver = EnumMember("AsyncDriver", "sqlite+aiosqlite"),
                             !.database = Str("db")]

OverlapNext ==
    \/ Construct
    \/ TaskStart
    \/ TaskAcquired
    \/ TaskExecuted
    \/ TaskCommitted
    \/ LaterReset

OverlapSpec == OverlapInit /\ [][OverlapNext]_vars

----------------------------------------------------------------------------
(* Teardown when the release of a connection raises                        *)

CloseReleaseFails ==
    /\ phase = "live"
    /\ \E failing \in ReleaseFaults :
         Commit("close", 0, close(Self, failing))
    /\ Frame /\ UNCHANGED inScope

ACloseReleaseFails ==
    /\ phase = "live"
    /\ \E failing \in ReleaseFaults :
         Commit("aclose", 0, aclose(Self, failing))
    /\ Frame /\ UNCHANGED inScope

FaultNext ==
    \/ Construct
    \/ FetchOne
    \/ FetchAll
    \/ GetEngineCall
    \/ CloseReleaseFails
    \/ ACloseReleaseFails

FaultSpec == Init /\ [][FaultNext]_vars

----------------------------------------------------------------------------
(* Instances configured with a URL                                         *)

\* a URL that names a synchronous driver and one that names an asynchronous one
UrlArgs ==
    {[NoArgs EXCEPT !.url = Url("snowflake", "db")],
     [NoArgs EXCEPT !.url = Url("postgresql+asyncpg", "db")]}

UrlInit == InitVars /\ args \in UrlArgs

UrlNext ==
    \/ Construct
    \/ GetEngineCall
    \/ FetchOne
    \/ Execute
    \/ ResetConnections
    \/ ResetAsyncConnections
    \/ Close
    \/ AClose
    \/ Enter
    \/ AEnter
    \/ Exit

UrlSpec == UrlInit /\ [][UrlNext]_vars

----------------------------------------------------------------------------
(* What the properties below speak of                                      *)

FetchOps == {"fetch_one", "fetch_many", "fetch_all"}

ExecuteOps == {"execute", "execute_many"}

Events(trace, what) == {i \in DOMAIN trace : trace[i][1] = what}

Happened(trace, what, id) == \E i \in DOMAIN trace : trace[i] = <<what, id>>

\* the last call was a teardown of the instance's own concurrency mode
TornDown(call, isAsync) ==
    \/ ~isAsync /\ call.op \in {"close", "__exit__"}
    \/ isAsync /\ call.op \in {"aclose", "__aexit__"}

\* a result set that can still be read: not closed, on an open connection
Live(c) ==
    /\ ~cursors[c].closed
    /\ cursors[c].conn \in DOMAIN conns
    /\ conns[cursors[c].conn].open

Supplied(v) == v.kind # "none"

DiscreteFields == {"driver", "username", "password", "database", "host", "port", "query"}

----------------------------------------------------------------------------
(* C1: when a fetch that returned is followed, with no call between, by a  *)
(* fetch with the same operation, parameters and options, the second       *)
(* executes nothing, reads the result set the first one read, and returns  *)
(* the rows that come next in it.                                          *)
C1_SecondFetchContinues ==
    [][(/\ last.op \in FetchOps /\ last.exc = ""
        /\ last'.op \in FetchOps /\ last'.input = last.input)
       => /\ Events(last'.trace, "execute") = {}
          /\ last'.exc = ""
          /\ last'.cur = last.cur
          /\ last'.rows = SubSeq(cursors[last.cur].rows, 1, Len(last'.rows))
          /\ cursors'[last.cur].rows =
                SubSeq(cursors[last.cur].rows, Len(last'.rows) + 1,
                       Len(cursors[last.cur].rows))
          /\ (last.rows # <<>> /\ last'.rows # <<>>
                => last'.rows[1] = last.rows[Len(last.rows)] + 1)]_vars

\* a fetch served from the cache returned rows that follow rows already returned
C1_Witness ==
    /\ last.op \in FetchOps
    /\ last.hit
    /\ last.rows # <<>>
    /\ last.rows[1] > 1

----------------------------------------------------------------------------
(* C2: no instance is constructed from a URL together with a supplied      *)
(* discrete parameter: every such construction raises the validation error.*)
C2_UrlExcludesDiscrete ==
    (phase # "none" /\ Supplied(args.url)
        /\ \E f \in DiscreteFields : Supplied(args[f]))
    => (phase = "failed" /\ last.exc = "ValueError")

----------------------------------------------------------------------------
(* C3: without a URL, construction raises the validation error unless the  *)
(* driver and the database are both supplied, so an instance constructed   *)
(* without a URL has both.                                                 *)
C3_RequiredWithoutUrl ==
    (phase # "none" /\ ~Supplied(args.url))
    => /\ ~(Supplied(args.driver) /\ Supplied(args.database))
            => (phase = "failed" /\ last.exc = "ValueError")
       /\ phase = "live" => (Supplied(args.driver) /\ Supplied(args.database))

\* a construction with a driver and no database was refused
C3_Witness ==
    /\ phase = "failed"
    /\ last.exc = "ValueError"
    /\ ~Supplied(args.url)
    /\ Supplied(args.driver)
    /\ ~Supplied(args.database)

----------------------------------------------------------------------------
(* C4: after close, aclose or the end of a with / async with block the     *)
(* engine handle is None, and a fetch that then opens a connection opens   *)
(* it on an engine created by that very call, never on a disposed one.     *)
C4_ClearedThenNewEngine ==
    /\ TornDown(last, driver_is_async) => engine = 0
    /\ (last.op \in FetchOps /\ last.conn # 0)
        => /\ last.conn \in DOMAIN conns
           /\ conns[last.conn].engine \in DOMAIN engines
           /\ ~engines[conns[last.conn].engine].disposed
           /\ engine = 0
                => Happened(last.trace, "create_engine", conns[last.conn].engine)

\* a fetch after a teardown ran on a second engine
C4_Witness ==
    /\ last.op \in FetchOps
    /\ last.conn # 0
    /\ engine = 0
    /\ conns[last.conn].engine > 1
    /\ last.rows # <<>>

----------------------------------------------------------------------------
(* C5: two get_engine calls with no call between them return the same      *)
(* engine.                                                                 *)
C5_GetEngineReuses ==
    [][(last.op = "get_engine" /\ last'.op = "get_engine")
       => last'.eng = last.eng]_vars

----------------------------------------------------------------------------
(* C6: close, reset_connections and with-entry on an asynchronous          *)
(* instance, and aclose, reset_async_connections and async-with-entry on a *)
(* synchronous one, raise the usage error that names the counterpart and   *)
(* close no cursor, release no connection and dispose no engine.           *)
Counterpart(op) ==
    CASE op = "close" -> "aclose"
      [] op = "reset_connections" -> "reset_async_connections"
      [] op = "__enter__" -> "async with"
      [] op = "aclose" -> "close"
      [] op = "reset_async_connections" -> "reset_connections"
      [] op = "__aenter__" -> "with"

WrongMode(call, isAsync) ==
    \/ isAsync /\ call.op \in {"close", "reset_connections", "__enter__"}
    \/ ~isAsync /\ call.op \in {"aclose", "reset_async_connections", "__aenter__"}

C6_WrongModeRaises ==
    (phase = "live" /\ WrongMode(last, driver_is_async))
    => /\ last.exc = "ValueError"
       /\ last.hint = Counterpart(last.op)
       /\ last.trace = <<>>
       /\ last.op \in {"__enter__", "__aenter__"} => ~inScope

\* close was refused on an asynchronous instance that holds a cached cursor
C6_Witness ==
    /\ phase = "live"
    /\ driver_is_async
    /\ last.op = "close"
    /\ last.exc = "ValueError"
    /\ unique_results # <<>>
    /\ engine # 0

----------------------------------------------------------------------------
(* C7: the cache holds one entry per input hash; every result set that can *)
(* still be read is the one the cache holds for its input; after a reset   *)
(* or a teardown the cache is empty.                                       *)
Resets == {"reset_connections", "reset_async_connections"}

C7_OneLiveHandlePerHash ==
    /\ \A i, j \in DOMAIN unique_results :
          unique_results[i].key = unique_results[j].key => i = j
    /\ \A c \in DOMAIN cursors :
          Live(c) => \E i \in DOMAIN unique_results :
                        /\ unique_results[i].key = cursors[c].input
                        /\ unique_results[i].value = c
    /\ \A c, d \in DOMAIN cursors :
          (Live(c) /\ Live(d) /\ cursors[c].input = cursors[d].input) => c = d
    /\ (phase = "live" /\ last.exc = ""
            /\ (last.op \in Resets \/ TornDown(last, driver_is_async)))
        => unique_results = <<>>

\* two result sets, of different inputs, are cached and can be read
C7_Witness ==
    /\ last.op \in FetchOps
    /\ ~last.hit
    /\ last.cur > 1
    /\ Live(last.cur)
    /\ \E c \in DOMAIN cursors : c # last.cur /\ Live(c)

----------------------------------------------------------------------------
(* C8: in a teardown every closing of a cursor comes before every release  *)
(* of a connection, and every release comes before the disposal of the     *)
(* engine.                                                                 *)
Stage(event) ==
    CASE event[1] \in {"cursor_close", "close_failed", "warning"} -> 1
      [] event[1] \in {"release", "release_failed"} -> 2
      [] event[1] = "dispose" -> 3
      [] OTHER -> 0

C8_TeardownOrder ==
    TornDown(last, driver_is_async)
    => /\ \A i, j \in DOMAIN last.trace :
             i < j => Stage(last.trace[i]) <= Stage(last.trace[j])
       /\ \A i \in DOMAIN last.trace : Stage(last.trace[i]) > 0
       /\ exit_stack.stack = <<>>
       /\ \A k \in DOMAIN conns : ~conns[k].open

\* an asynchronous teardown closed a cursor, released a connection, disposed the engine
C8_Witness ==
    /\ driver_is_async
    /\ TornDown(last, driver_is_async)
    /\ Events(last.trace, "cursor_close") # {}
    /\ Events(last.trace, "release") # {}
    /\ Events(last.trace, "dispose") # {}

----------------------------------------------------------------------------
(* C9: a teardown in which the closing of a cursor fails still ends        *)
(* without raising: the failure is logged, every other cached cursor is    *)
(* closed, the cache is empty, every tracked connection is released and    *)
(* the engine held is disposed.                                            *)
C9_CloseFailureSkipped ==
    [][(TornDown(last', driver_is_async)
            /\ Events(last'.trace, "close_failed") # {})
       => /\ last'.exc = ""
          /\ \A i \in DOMAIN unique_results :
                \/ Happened(last'.trace, "cursor_close", unique_results[i].value)
                \/ /\ Happened(last'.trace, "close_failed", unique_results[i].value)
                   /\ Happened(last'.trace, "warning", unique_results[i].key)
          /\ unique_results' = <<>>
          /\ \A i \in DOMAIN exit_stack.stack :
                Happened(last'.trace, "release", exit_stack.stack[i])
          /\ exit_stack'.stack = <<>>
          /\ \A k \in DOMAIN conns' : ~conns'[k].open
          /\ engine # 0 => Happened(last'.trace, "dispose", engine)
          /\ engine' = 0]_vars

\* a teardown where one cursor failed to close and another was closed
C9_Witness ==
    /\ TornDown(last, driver_is_async)
    /\ Events(last.trace, "close_failed") # {}
    /\ Events(last.trace, "cursor_close") # {}
    /\ Events(last.trace, "release") # {}
    /\ Events(last.trace, "dispose") # {}
    /\ unique_results = <<>>

----------------------------------------------------------------------------
(* C10: every execute and execute_many call executes its operation once,   *)
(* whether or not the input is cached, and leaves the cache and the cached *)
(* result sets as they were.                                               *)
C10_ExecuteBypassesCache ==
    [][last'.op \in ExecuteOps
       => /\ Cardinality(Events(last'.trace, "execute")) = 1
          /\ Happened(last'.trace, "execute", last'.input)
          /\ unique_results' = unique_results
          /\ \A i \in DOMAIN unique_results :
                /\ unique_results[i].value \in DOMAIN cursors'
                /\ cursors'[unique_results[i].value] = cursors[unique_results[i].value]]_vars

\* an execute ran while its own input was in the cache
C10_Witness ==
    /\ last.op \in ExecuteOps
    /\ last.exc = ""
    /\ \E i \in DOMAIN unique_results : unique_results[i].key = last.input
    /\ Events(last.trace, "execute") # {}

----------------------------------------------------------------------------
(* C11: the connection that an execute or execute_many call opens is       *)
(* released before the call ends, whether the execution returns or raises, *)
(* and is never entered in the exit stack: it is not open and not tracked  *)
(* when the call has ended, and the exit stack is as the call found it.    *)
C11_ExecuteConnectionScoped ==
    [][last'.op \in ExecuteOps
       => /\ last'.conn # 0
          /\ Happened(last'.trace, "connect", last'.conn)
          /\ Happened(last'.trace, "release", last'.conn)
          /\ Events(last'.trace, "track") = {}
          /\ exit_stack' = exit_stack
          /\ \A i \in DOMAIN exit_stack'.stack : exit_stack'.stack[i] # last'.conn
          /\ last'.conn \in DOMAIN conns' => ~conns'[last'.conn].open
          /\ \A i, j \in DOMAIN last'.trace :
                (last'.trace[i][1] = "execute" /\ last'.trace[j][1] = "release")
                    => i < j]_vars

\* an execute whose execution raised has released its connection
C11_Witness ==
    /\ last.op \in ExecuteOps
    /\ last.exc = "DBAPIError"
    /\ Happened(last.trace, "release", last.conn)
    /\ \A k \in DOMAIN conns : conns[k].open => k # last.conn

----------------------------------------------------------------------------
(* C12: when a with or async with block ends, after calls that returned or *)
(* after a call that raised, close has been called on every cached cursor  *)
(* and no result set can still be read, the cache is empty, every tracked  *)
(* connection has been released and none is open, and the engine held has  *)
(* been disposed and its handle cleared.                                   *)
ExitOps == {"__exit__", "__aexit__"}

C12_ScopeExitReleases ==
    [][last'.op \in ExitOps
       => /\ last'.exc = ""
          /\ \A i \in DOMAIN unique_results :
                \/ Happened(last'.trace, "cursor_close", unique_results[i].value)
                \/ Happened(last'.trace, "close_failed", unique_results[i].value)
          /\ \A c \in DOMAIN cursors' :
                \/ cursors'[c].closed
                \/ cursors'[c].conn \notin DOMAIN conns'
                \/ ~conns'[cursors'[c].conn].open
          /\ unique_results' = <<>>
          /\ \A i \in DOMAIN exit_stack.stack :
                Happened(last'.trace, "release", exit_stack.stack[i])
          /\ \A k \in DOMAIN conns :
                conns[k].open => Happened(last'.trace, "release", k)
          /\ exit_stack'.stack = <<>>
          /\ \A k \in DOMAIN conns' : ~conns'[k].open
          /\ engine # 0 => Happened(last'.trace, "dispose", engine)
          /\ \A e \in DOMAIN engines' : e = engine => engines'[e].disposed
          /\ engine' = 0
          /\ ~inScope']_vars

\* a block in which one fetch returned and another raised has ended: a cursor
\* was closed, more connections than cursors were released, the engine disposed
C12_Witness ==
    /\ last.op \in ExitOps
    /\ Events(last.trace, "cursor_close") # {}
    /\ Cardinality(Events(last.trace, "release"))
            > Cardinality(Events(last.trace, "cursor_close"))
    /\ Events(last.trace, "dispose") # {}
    /\ engine = 0

----------------------------------------------------------------------------
----------------------------------------------------------------------------
(* C14: the engine is created at construction, not at the first use: when  *)
(* the constructor has returned, and before any other call, the instance   *)
(* holds an engine that the constructor created, that is not disposed and  *)
(* on which no connection has been opened.                                 *)
C14_EngineAtConstruction ==
    (phase = "live" /\ last.op = "__init__")
    => /\ engine # 0
       /\ Happened(last.trace, "create_engine", engine)
       /\ engine \in DOMAIN engines
       /\ ~engines[engine].disposed
       /\ Events(last.trace, "connect") = {}
       /\ conns = <<>>

\* an instance has just been constructed and holds its first engine
C14_Witness ==
    /\ phase = "live"
    /\ last.op = "__init__"
    /\ last.exc = ""
    /\ engine = 1
    /\ ~engines[1].disposed

\* C14 as stated: when the constructor has returned, and before any other
\* call, the instance holds no engine.
C14_NoEngineAfterConstruction ==
    (phase = "live" /\ last.op = "__init__") => engine = 0

----------------------------------------------------------------------------
(* C15: a reset_connections or reset_async_connections call that returns   *)
(* leaves the cache empty and every tracked connection released, and       *)
(* leaves the engine handle and the engine it holds as they were, not      *)
(* disposed; the fetch that follows it, whatever was cached before,        *)
(* executes its operation again and returns the first rows of the result.  *)
C15_ResetThenFetchRestarts ==
    [][/\ (last'.op \in Resets /\ last'.exc = "")
          => /\ unique_results' = <<>>
             /\ \A i \in DOMAIN exit_stack.stack :
                   Happened(last'.trace, "release", exit_stack.stack[i])
             /\ exit_stack'.stack = <<>>
             /\ \A k \in DOMAIN conns' : ~conns'[k].open
             /\ engine' = engine
             /\ Events(last'.trace, "dispose") = {}
             /\ engine # 0 => /\ engine \in DOMAIN engines'
                              /\ engines'[engine] = engines[engine]
       /\ (last.op \in Resets /\ last.exc = "" /\ last'.op \in FetchOps)
          => /\ ~last'.hit
             /\ Cardinality(Events(last'.trace, "execute")) = 1
             /\ Happened(last'.trace, "execute", last'.input)
             /\ last'.exc = ""
                => /\ last'.rows # <<>>
                   /\ last'.rows = SubSeq(ResultRows(Input(last'.input)), 1,
                                          Len(last'.rows))]_vars

\* a reset has closed a cached cursor and released its connection, and the
\* instance still holds its engine, not disposed
C15_Witness ==
    /\ last.op \in Resets
    /\ last.exc = ""
    /\ Events(last.trace, "cursor_close") # {}
    /\ Events(last.trace, "release") # {}
    /\ unique_results = <<>>
    /\ engine # 0
    /\ ~engines[engine].disposed

----------------------------------------------------------------------------
(* C16: fetch_one, fetch_many of any size and fetch_all with the same      *)
(* inputs read one shared cursor: whether a fetch finds its input cached   *)
(* depends on the inputs alone; the rows a fetch returns are the next rows *)
(* of the result, in order, none repeated and none skipped, after those    *)
(* the earlier fetches returned; fetch_all leaves nothing to read, and a   *)
(* fetch on a cursor with nothing left returns no rows.                    *)
C16_SharedCursor ==
    [][(last'.op \in FetchOps /\ last'.exc = "")
       => LET h == last'.input
              c == last'.cur
              R == ResultRows(Input(h))
              before == IF CacheHit(h, unique_results)
                        THEN cursors[unique_results[Lookup(unique_results, h)].value].rows
                        ELSE R
              after == cursors'[c].rows
          IN /\ last'.hit = CacheHit(h, unique_results)
             /\ last'.hit
                => /\ c = unique_results[Lookup(unique_results, h)].value
                   /\ Events(last'.trace, "execute") = {}
             /\ unique_results'[Lookup(unique_results', h)].value = c
             /\ last'.rows \o after = before
             /\ before = SubSeq(R, Len(R) - Len(before) + 1, Len(R))
             /\ last'.op = "fetch_all" => after = <<>>
             /\ before = <<>> => last'.rows = <<>>]_vars

\* a fetch_all returned the rows that an earlier fetch_one or fetch_many with
\* the same inputs had left
C16_Witness ==
    /\ last.op = "fetch_all"
    /\ last.hit
    /\ last.rows # <<>>
    /\ last.rows[1] > 1
    /\ cursors[last.cur].rows = <<>>

----------------------------------------------------------------------------
(* C17: inputs that differ have different cache keys; a fetch leaves the   *)
(* cache entry and the cursor of every other input as they were; a fetch   *)
(* whose input is not cached executes once, on a connection opened for it  *)
(* that no other cursor uses, and caches a cursor of its own; different    *)
(* entries of the cache hold different cursors on different connections.   *)
C17_DistinctInputsIndependent ==
    [][last'.op \in FetchOps
       => /\ \A a, b \in Inputs : a # b => hash_objects(a) # hash_objects(b)
          /\ \A i \in DOMAIN unique_results :
                unique_results[i].key # last'.input
                => /\ \E j \in DOMAIN unique_results' :
                         unique_results'[j] = unique_results[i]
                   /\ unique_results[i].value \in DOMAIN cursors'
                   /\ cursors'[unique_results[i].value]
                         = cursors[unique_results[i].value]
          /\ (~last'.hit /\ last'.exc = "")
                => /\ Cardinality(Events(last'.trace, "execute")) = 1
                   /\ Happened(last'.trace, "connect", last'.conn)
                   /\ last'.conn \notin DOMAIN conns
                   /\ \A c \in DOMAIN cursors : cursors[c].conn # last'.conn
                   /\ \A i \in DOMAIN unique_results :
                         unique_results[i].value # last'.cur
                   /\ cursors'[last'.cur].conn = last'.conn
                   /\ cursors'[last'.cur].input = last'.input
                   /\ \E j \in DOMAIN unique_results' :
                         unique_results'[j] = [key |-> last'.input,
                                               value |-> last'.cur]
          /\ \A i, j \in DOMAIN unique_results' :
                i # j => /\ unique_results'[i].key # unique_results'[j].key
                         /\ unique_results'[i].value # unique_results'[j].value
                         /\ cursors'[unique_results'[i].value].conn
                               # cursors'[unique_results'[j].value].conn]_vars

\* the first fetch of an input executed and returned rows while the cursor
\* of another input, read in part, still has its remaining rows
C17_Witness ==
    /\ last.op \in FetchOps
    /\ ~last.hit
    /\ last.rows # <<>>
    /\ \E i \in DOMAIN unique_results :
          /\ unique_results[i].key # last.input
          /\ Live(unique_results[i].value)
          /\ cursors[unique_results[i].value].rows # <<>>
          /\ cursors[unique_results[i].value].conn # last.conn

----------------------------------------------------------------------------
(* C18: the connection a fetch opens for an input that is not cached is    *)
(* entered in the exit stack before the operation is executed, and stays   *)
(* there when the execution raises; after every call each open connection  *)
(* is in the exit stack; when a reset or a teardown has returned, every    *)
(* connection that was open before it has been released and none is open.  *)
Tracked(stack) == {stack[i] : i \in DOMAIN stack}

C18_FetchConnectionsTracked ==
    [][/\ (last'.op \in FetchOps /\ ~last'.hit)
          => /\ last'.conn # 0
             /\ Happened(last'.trace, "track", last'.conn)
             /\ \A i, j \in DOMAIN last'.trace :
                   (last'.trace[i] = <<"track", last'.conn>>
                        /\ last'.trace[j][1] = "execute") => i < j
             /\ \A j \in DOMAIN last'.trace :
                   last'.trace[j][1] = "execute"
                   => \E i \in 1..(j - 1) : last'.trace[i] = <<"track", last'.conn>>
             /\ last'.conn \in Tracked(exit_stack'.stack)
             /\ conns'[last'.conn].open
       /\ \A k \in DOMAIN conns' :
             conns'[k].open => k \in Tracked(exit_stack'.stack)
       /\ (last'.exc = ""
              /\ (last'.op \in Resets \/ TornDown(last', driver_is_async')))
          => /\ \A k \in DOMAIN conns :
                   conns[k].open => /\ Happened(last'.trace, "release", k)
                                    /\ k \in DOMAIN conns' => ~conns'[k].open
             /\ \A k \in DOMAIN conns' : ~conns'[k].open
             /\ exit_stack'.stack = <<>>]_vars

\* a fetch whose execution raised has left its connection open and tracked
C18_Witness ==
    /\ last.op \in FetchOps
    /\ last.exc = "DBAPIError"
    /\ last.conn \in DOMAIN conns
    /\ conns[last.conn].open
    /\ last.conn \in Tracked(exit_stack.stack)

----------------------------------------------------------------------------
(* C19: after every call at most one engine that the instance created is   *)
(* not disposed, and it is the one the handle holds; when a teardown has   *)
(* returned, no engine created for a fetch, an execute or a get_engine     *)
(* call since the teardown before it is left undisposed.                   *)
C19_OneLiveEngine ==
    /\ \A e \in DOMAIN engines : ~engines[e].disposed => e = engine
    /\ (phase = "live" /\ last.exc = "" /\ TornDown(last, driver_is_async))
        => \A e \in DOMAIN engines : engines[e].disposed

----------------------------------------------------------------------------
(* C20: the mode of an instance is asynchronous exactly when its driver is *)
(* a member of AsyncDriver or the string value of one, and synchronous     *)
(* otherwise; no fetch, execute, reset, close or serialization round trip  *)
(* changes the mode the constructor set.                                   *)
C20_ModeFixedAtInit ==
    [][phase' = "live"
       => /\ driver_is_async'
                = (/\ args'.driver.kind \in {"enum", "str"}
                   /\ args'.driver.val \in AsyncDriver)
          /\ phase = "live" => driver_is_async' = driver_is_async]_vars

\* an instance whose driver is the name of an asynchronous driver has been
\* rebuilt from its serialized state and is asynchronous
C20_Witness ==
    /\ last.op = "__setstate__"
    /\ args.driver.kind = "str"
    /\ driver_is_async
    /\ exit_stack.kind = "AsyncExitStack"

----------------------------------------------------------------------------
(* C21: the lookup and the store of an asynchronous fetch are separate     *)
(* steps with suspensions between them: the fetch is suspended only after  *)
(* a lookup that missed, and its steps up to the store leave the cache as  *)
(* it is; a fetch that missed stores its own result set                    *)
(* whatever the cache holds by then, so of the result sets of overlapping  *)
(* fetches with the same inputs the cache keeps the one stored last and    *)
(* the other stays open outside the cache; the cursor-closing step of a    *)
(* later reset closes the cached result sets only, not the other one.      *)
Cached(cache) == {cache[i].value : i \in DOMAIN cache}

Suspended == {"acquiring", "executing", "committing"}

C21_OverlappingFetchesBothMiss ==
    [][/\ \A t \in DOMAIN tasks :
             (tasks'[t].pc \in Suspended /\ tasks'[t].pc # tasks[t].pc)
             => /\ tasks[t].pc = "idle" \/ tasks'[t].input = tasks[t].input
                /\ tasks'[t].input \notin Keys(unique_results)
                       \/ tasks[t].pc \in Suspended
                /\ unique_results' = unique_results
       /\ \A t \in DOMAIN tasks :
             (tasks[t].pc = "committing" /\ tasks'[t].pc = "idle")
             => /\ \E i \in DOMAIN unique_results' :
                      unique_results'[i] = [key |-> tasks[t].input,
                                            value |-> tasks[t].cur]
                /\ \A i \in DOMAIN unique_results :
                      unique_results[i].key = tasks[t].input
                      => LET old == unique_results[i].value
                         IN /\ old # tasks[t].cur
                            /\ old \notin Cached(unique_results')
                            /\ old \in DOMAIN cursors'
                            /\ cursors'[old] = cursors[old]
                            /\ ~cursors'[old].closed
                            /\ conns'[cursors'[old].conn].open
       /\ (last'.op \in Resets /\ last'.exc = "")
          => \A c \in DOMAIN cursors :
                (c \notin Cached(unique_results) /\ ~cursors[c].closed)
                => /\ ~Happened(last'.trace, "cursor_close", c)
                   /\ ~Happened(last'.trace, "close_failed", c)
                   /\ c \in DOMAIN cursors' => ~cursors'[c].closed]_vars

\* two fetches with the same inputs have both executed: two result sets of the
\* one input are open, each on its own connection, and the cache holds one
C21_Witness ==
    /\ AllIdle
    /\ \E c, d \in DOMAIN cursors :
          /\ c # d
          /\ cursors[c].input = cursors[d].input
          /\ Live(c) /\ Live(d)
          /\ cursors[c].conn # cursors[d].conn
          /\ d \in Cached(unique_results)
          /\ c \notin Cached(unique_results)

----------------------------------------------------------------------------
(* C22: when the release of a tracked connection raises during close or    *)
(* aclose, the call raises what the release raised, and by then the engine *)
(* the instance held has been disposed, after every release was tried, and *)
(* the engine handle is None.                                              *)
C22_ReleaseFailureStillDisposes ==
    [][(last'.op \in {"close", "aclose"}
            /\ Events(last'.trace, "release_failed") # {})
       => /\ last'.exc = "Exception"
          /\ last'.hint = "release"
          /\ engine' = 0
          /\ engine # 0
             => /\ Happened(last'.trace, "dispose", engine)
                /\ engine \in DOMAIN engines' => engines'[engine].disposed
                /\ \A i, j \in DOMAIN last'.trace :
                      (last'.trace[i][1] \in {"release", "release_failed"}
                          /\ last'.trace[j][1] = "dispose") => i < j
          /\ \A i \in DOMAIN exit_stack.stack :
                \/ Happened(last'.trace, "release", exit_stack.stack[i])
                \/ Happened(last'.trace, "release_failed", exit_stack.stack[i])
          /\ exit_stack'.stack = <<>>]_vars

\* a close or aclose raised because a release failed; the engine it held was
\* disposed and the handle is None
C22_Witness ==
    /\ last.op \in {"close", "aclose"}
    /\ last.exc = "Exception"
    /\ Events(last.trace, "release_failed") # {}
    /\ Events(last.trace, "dispose") # {}
    /\ engine = 0

----------------------------------------------------------------------------
(* C23: a fetch whose execution raises leaves the cache as it was, with no *)
(* entry for its input, and leaves the connection it opened open and in    *)
(* the exit stack; a tracked connection stays open and tracked through     *)
(* every call but a reset or teardown that returns, which releases it; a   *)
(* fetch with the same inputs right after the failure executes again, on a *)
(* new connection.                                                         *)
C23_FailedFetchLeavesNoEntry ==
    [][/\ (last'.op \in FetchOps /\ last'.exc = "DBAPIError")
          => /\ ~last'.hit
             /\ unique_results' = unique_results
             /\ last'.input \notin Keys(unique_results')
             /\ cursors' = cursors
             /\ last'.conn \notin DOMAIN conns
             /\ last'.conn \in DOMAIN conns'
             /\ conns'[last'.conn].open
             /\ exit_stack'.stack = Append(exit_stack.stack, last'.conn)
       /\ \A i \in DOMAIN exit_stack.stack :
             LET k == exit_stack.stack[i] IN
             IF last'.exc = ""
                   /\ (last'.op \in Resets \/ TornDown(last', driver_is_async'))
             THEN Happened(last'.trace, "release", k)
             ELSE /\ k \in Tracked(exit_stack'.stack)
                  /\ k \in DOMAIN conns'
                  /\ conns'[k].open
       /\ (last.op \in FetchOps /\ last.exc = "DBAPIError"
              /\ last'.op \in FetchOps /\ last'.input = last.input)
          => /\ ~last'.hit
             /\ Cardinality(Events(last'.trace, "execute")) = 1
             /\ Happened(last'.trace, "execute", last'.input)
             /\ last'.conn # last.conn
             /\ last'.conn \notin DOMAIN conns
             /\ Happened(last'.trace, "connect", last'.conn)]_vars

\* a fetch has raised while the connection of an earlier fetch that raised is
\* still open and tracked; the cache has no entry for the input
C23_Witness ==
    /\ last.op \in FetchOps
    /\ last.exc = "DBAPIError"
    /\ last.input \notin Keys(unique_results)
    /\ last.conn \in Tracked(exit_stack.stack)
    /\ \E k \in Tracked(exit_stack.stack) :
          /\ k # last.conn
          /\ conns[k].open
          /\ k \notin DOMAIN cursors

----------------------------------------------------------------------------
(* C24: a call refused with the usage error because it is of the other     *)
(* concurrency mode (close, reset_connections or with-entry on an          *)
(* asynchronous instance; aclose, reset_async_connections or async         *)
(* with-entry on a synchronous one) leaves the instance as it was: the     *)
(* engine handle and the engine, the cache and every cached cursor, the    *)
(* exit stack and every tracked connection.                                *)
C24_WrongModeLeavesUnchanged ==
    [][(phase = "live" /\ WrongMode(last', driver_is_async))
       => /\ last'.exc = "ValueError"
          /\ last'.trace = <<>>
          /\ engine' = engine
          /\ engine # 0 => /\ engine \in DOMAIN engines'
                           /\ ~engines'[engine].disposed
          /\ unique_results' = unique_results
          /\ \A i \in DOMAIN unique_results :
                /\ unique_results[i].value \in DOMAIN cursors'
                /\ cursors'[unique_results[i].value]
                      = cursors[unique_results[i].value]
          /\ exit_stack' = exit_stack
          /\ \A i \in DOMAIN exit_stack.stack :
                /\ exit_stack.stack[i] \in DOMAIN conns'
                /\ conns'[exit_stack.stack[i]] = conns[exit_stack.stack[i]]
          /\ UNCHANGED <<driver_is_async, engines, conns, cursors, made, inScope>>]_vars

\* a reset of the other mode was refused on an instance that holds an engine,
\* a cached cursor that can be read and a tracked open connection
C24_Witness ==
    /\ phase = "live"
    /\ WrongMode(last, driver_is_async)
    /\ last.op \in Resets
    /\ last.exc = "ValueError"
    /\ engine # 0
    /\ ~engines[engine].disposed
    /\ \E i \in DOMAIN unique_results : Live(unique_results[i].value)
    /\ exit_stack.stack # <<>>

----------------------------------------------------------------------------
(* C25: an instance configured with a URL is synchronous whatever driver   *)
(* the URL names: every engine it builds is a synchronous engine and its   *)
(* exit stack a synchronous one; close, reset_connections, with-entry and  *)
(* with-exit return; aclose, reset_async_connections and async with-entry  *)
(* raise the usage error that names the synchronous counterpart.           *)
C25_UrlInstanceIsSync ==
    (phase = "live" /\ Supplied(args.url))
    => /\ ~Supplied(args.driver)
       /\ ~driver_is_async
       /\ exit_stack.kind = "ExitStack"
       /\ \A e \in DOMAIN engines : engines[e].kind = "Engine"
       /\ engine # 0 => engines[engine].kind = "Engine"
       /\ last.op \in {"close", "reset_connections", "__enter__", "__exit__"}
            => last.exc = ""
       /\ last.op \in {"aclose", "reset_async_connections", "__aenter__"}
            => /\ last.exc = "ValueError"
               /\ last.hint = Counterpart(last.op)
               /\ last.trace = <<>>
       /\ last.op = "__aenter__" => ~inScope

\* aclose was refused on an instance whose URL names an asynchronous driver
\* and that holds a synchronous engine
C25_Witness ==
    /\ phase = "live"
    /\ args.url.kind = "url"
    /\ args.url.scheme \in AsyncDriver
    /\ last.op = "aclose"
    /\ last.exc = "ValueError"
    /\ engine # 0
    /\ engines[engine].kind = "Engine"
    /\ exit_stack.kind = "ExitStack"

====
